---- MODULE Spec2Model ----
(***************************************************************************)
(* Model of the Ararat Designs backend: the per-user shopping cart         *)
(* (addProductToCartService) and order placement with invoicing            *)
(* (postOrderService), together with the admin operations that touch the   *)
(* same documents.  Every await of a handler is one atomic step; requests  *)
(* interleave between awaits.                                              *)
(***************************************************************************)
EXTENDS Integers, Sequences, FiniteSets, TLC

\* ------------------------------------------------------------------ bounds
MaxQty == 2        \* an increase is only issued while every line is below this
MaxDebt == 0       \* a decrease is only issued while every line is above -MaxDebt
NInvocations == 2  \* handler invocations one warm serverless instance receives

\* ------------------------------------------------------- program constants
MAX_RETRIES == 3

\* --------------------------------------------------------------- universes
Users == {"u1", "u2"}
CartUsers == {"u1"}                   \* the user whose cart requests are followed
ProductIds == {"p1", "p2", "p3"}      \* p3 is the id of a product that was deleted
CReqs == {"r1", "r2"}                 \* cart request slots of one batch
None == "none"

VARIABLES
  product,   \* Product collection: id -> [exists, price, name]
  cart,      \* User.cart.items of every user: sequence of [productId, quantity]
  cart0,     \* history: the carts when the current batch of cart requests began
  overlap,   \* history: some cart request began while another was in flight
  creq,      \* the in-flight addProductToCartService requests
  ord,       \* Order collection, keyed by the request that created the document
  inv,       \* Invoice collection, keyed by the request that created the document
  oreq,      \* the postOrderService requests
  adminOps,  \* number of admin operations performed so far
  access,    \* the getInvoicesService request
  roleOf,    \* User collection: stored role of each account
  emailOf,   \* User collection: stored e-mail address of each account
  upd,       \* the adminUpdateAuthService request
  imageOf,   \* cloudinary_id stored on each user, on the category and on the post
  cloud,     \* external storage: the images alive, and how many were ever made
  disk,      \* local uploads folder: the files on disk, and how many were ever staged
  mreq,      \* the updateCategoryService / adminUpdatePostService request
  del,       \* the order deletion request served last
  report,    \* what getTopProductsService returned last
  lifeOps,   \* number of deletions, e-mail changes and reports so far
  reviewed,  \* the reviewed product: [reviews, ratings (in tenths), numberOfReviews]
  rv,        \* the addReviewService / deleteReviewService request
  adminRes,  \* the response adminUpdateOrderStatusService sent last
  app,       \* api/index.ts: the imported HTTP application is initialised
  connectionString, \* api/index.ts: the connection string is configured
  dbInitialized,    \* api/index.ts: module-level flag
  readyState,       \* mongoose.connection.readyState
  dials,     \* history: number of times the database was dialed
  call       \* module load and the handler invocations of one warm instance

orderVars == <<ord, inv, oreq, adminOps>>
cartVars == <<cart, cart0, overlap, creq>>
shopVars == <<product, cart, cart0, overlap, creq, ord, inv, oreq, adminOps>>
authVars == <<roleOf, upd, emailOf>>
mediaVars == <<imageOf, cloud, disk>>
lifeVars == <<del, report, lifeOps>>
reviewVars == <<reviewed, rv>>
connVars == <<app, connectionString, dbInitialized, readyState, dials, call>>
quietVars == <<access, authVars, reviewVars, connVars, lifeVars, mediaVars, mreq>>
otherVars == <<quietVars, adminRes>>
notAccess == <<shopVars, authVars, reviewVars, connVars, adminRes, lifeVars, mediaVars, mreq>>
notAuth == <<shopVars, access, reviewVars, connVars, adminRes, del, report, mreq>>
notReview == <<shopVars, access, authVars, connVars, adminRes, lifeVars, mediaVars, mreq>>
notConn == <<shopVars, access, authVars, reviewVars, adminRes, lifeVars, mediaVars, mreq>>
notMedia == <<shopVars, access, authVars, reviewVars, connVars, adminRes, lifeVars>>
notLife == <<product, cartVars, inv, oreq, adminOps, adminRes, access, authVars, reviewVars,
             connVars, mediaVars, mreq>>
vars == <<product, cart, cart0, overlap, creq, ord, inv, oreq, adminOps, otherVars>>

\* ------------------------------------------------------------- cart helpers
Line(p, q) == [productId |-> p, quantity |-> q]

HasProduct(items, p) == \E i \in 1..Len(items) : items[i].productId = p

RECURSIVE Qty(_, _)
\* total quantity recorded for product p over all lines of a cart
Qty(items, p) ==
  IF items = <<>> THEN 0
  ELSE (IF Head(items).productId = p THEN Head(items).quantity ELSE 0) + Qty(Tail(items), p)

\* first array index whose productId equals p (0 when there is none)
FirstByProduct(items, p) ==
  IF HasProduct(items, p)
  THEN CHOOSE i \in 1..Len(items) :
         /\ items[i].productId = p
         /\ \A j \in 1..(i-1) : items[j].productId # p
  ELSE 0

\* first array index whose quantity is greater than 1 (0 when there is none)
FirstByQtyGt1(items) ==
  IF \E i \in 1..Len(items) : items[i].quantity > 1
  THEN CHOOSE i \in 1..Len(items) :
         /\ items[i].quantity > 1
         /\ \A j \in 1..(i-1) : ~(items[j].quantity > 1)
  ELSE 0

\* Filter of the decrement update: {'cart.items.productId': P, 'cart.items.quantity': {$gt: 1}}.
\* The two conditions are separate predicates over the array (no $elemMatch):
\* each is satisfied by any element.
DecrementMatches(items, p) ==
  /\ HasProduct(items, p)
  /\ \E i \in 1..Len(items) : items[i].quantity > 1

\* The element the positional operator 'cart.items.$' designates.  With two
\* array predicates in the filter the database does not define which
\* predicate's first match is used: either can be.
DecrementPositions(items, p) == {FirstByProduct(items, p), FirstByQtyGt1(items)}

\* Filter of the removal update: {'cart.items.productId': P, 'cart.items.quantity': 1}
RemoveMatches(items, p) ==
  /\ HasProduct(items, p)
  /\ \E i \in 1..Len(items) : items[i].quantity = 1

\* $pull: {'cart.items': {productId: P}}
PullProduct(items, p) == SelectSeq(items, LAMBDA l : l.productId # p)

\* $inc: {'cart.items.$.quantity': d}
IncAt(items, i, d) == [items EXCEPT ![i].quantity = @ + d]

\* Filter of the increment update: {'cart.items.productId': P}
IncrementMatches(items, p) == HasProduct(items, p)

\* (mutant) a push that keeps one line per product and drops the second add
PushLine_m(items, p) == IF HasProduct(items, p) THEN items ELSE Append(items, Line(p, 1))

\* $push: {'cart.items': {productId: P, quantity: 1}}
PushLine(items, p) == Append(items, Line(p, 1))

\* (mutant) off-by-one in the retry cap
RetryExhausted_m(retries) == retries > MAX_RETRIES

\* catch block: retries >= MAX_RETRIES
RetryExhausted(retries) == retries >= MAX_RETRIES

\* ------------------------------------------------------------ cart requests
IdleC == [pc |-> "idle", user |-> None, productId |-> None, decrease |-> FALSE,
          authed |-> FALSE, retries |-> 0, attempts |-> 0, status |-> 0, err |-> None]

InFlightC(r) == creq[r].pc \notin {"idle", "done"}

Respond(r, st) == [creq EXCEPT ![r].pc = "done", ![r].status = st]

\* A request arrives (route handler entered, loop iteration 1 begins).
StartCart(r) ==
  /\ creq[r].pc = "idle"
  /\ \E u \in CartUsers, p \in ProductIds, dec \in BOOLEAN, au \in BOOLEAN :
       /\ dec => \A i \in 1..Len(cart[u]) : cart[u][i].quantity > -MaxDebt
       /\ ~dec => \A i \in 1..Len(cart[u]) : cart[u][i].quantity < MaxQty
       /\ creq' = [creq EXCEPT ![r] = [IdleC EXCEPT !.pc = "findProduct", !.user = u,
                                        !.productId = p, !.decrease = dec,
                                        !.authed = au, !.attempts = 1]]
  /\ cart0' = IF \A s \in CReqs : creq[s].pc = "idle" THEN cart ELSE cart0
  /\ overlap' = (overlap \/ \E s \in CReqs : InFlightC(s))
  /\ UNCHANGED <<otherVars, product, cart, orderVars>>

\* Product.findById, then the doDecrease / userId checks.
FindProduct(r) ==
  /\ creq[r].pc = "findProduct"
  /\ creq' = IF ~product[creq[r].productId].exists THEN Respond(r, 400)
             ELSE IF ~creq[r].authed THEN Respond(r, 401)
             ELSE [creq EXCEPT ![r].pc = IF creq[r].decrease THEN "decrement" ELSE "increment"]
  /\ UNCHANGED <<otherVars, product, cart, cart0, overlap, orderVars>>

\* First findOneAndUpdate of the decrease branch.
Decrement(r) ==
  /\ creq[r].pc = "decrement"
  /\ LET u == creq[r].user
         p == creq[r].productId
     IN IF DecrementMatches(cart[u], p)
        THEN \E i \in DecrementPositions(cart[u], p) :
               /\ cart' = [cart EXCEPT ![u] = IncAt(cart[u], i, -1)]
               /\ creq' = [creq EXCEPT ![r].pc = "fetchUser"]
        ELSE /\ creq' = [creq EXCEPT ![r].pc = "remove"]
             /\ UNCHANGED cart
  /\ UNCHANGED <<otherVars, product, cart0, overlap, orderVars>>

\* User.findById after a successful decrement, then the 201 response.
FetchUser(r) ==
  /\ creq[r].pc = "fetchUser"
  /\ creq' = Respond(r, 201)
  /\ UNCHANGED <<otherVars, product, cart, cart0, overlap, orderVars>>

\* Second findOneAndUpdate of the decrease branch ($pull), or 404.
Remove(r) ==
  /\ creq[r].pc = "remove"
  /\ LET u == creq[r].user
         p == creq[r].productId
     IN IF RemoveMatches(cart[u], p)
        THEN /\ cart' = [cart EXCEPT ![u] = PullProduct(cart[u], p)]
             /\ creq' = Respond(r, 201)
        ELSE /\ creq' = Respond(r, 404)
             /\ UNCHANGED cart
  /\ UNCHANGED <<otherVars, product, cart0, overlap, orderVars>>

\* First findOneAndUpdate of the increase branch.
Increment(r) ==
  /\ creq[r].pc = "increment"
  /\ LET u == creq[r].user
         p == creq[r].productId
     IN IF IncrementMatches(cart[u], p)
        THEN /\ cart' = [cart EXCEPT ![u] = IncAt(cart[u], FirstByProduct(cart[u], p), 1)]
             /\ creq' = Respond(r, 201)
        ELSE /\ creq' = [creq EXCEPT ![r].pc = "push"]
             /\ UNCHANGED cart
  /\ UNCHANGED <<otherVars, product, cart0, overlap, orderVars>>

\* Second findOneAndUpdate of the increase branch ($push).
Push(r) ==
  /\ creq[r].pc = "push"
  /\ cart' = [cart EXCEPT ![creq[r].user] = PushLine(cart[creq[r].user], creq[r].productId)]
  /\ creq' = Respond(r, 201)
  /\ UNCHANGED <<otherVars, product, cart0, overlap, orderVars>>

\* A database call of the current attempt rejects; the catch block runs.
DbSteps == {"findProduct", "decrement", "fetchUser", "remove", "increment", "push"}

Throw(r) ==
  /\ creq[r].pc \in DbSteps
  /\ \E kind \in {"conflict", "other"} :
       creq' = IF kind = "conflict"
               THEN IF RetryExhausted(creq[r].retries + 1)
                    THEN [creq EXCEPT ![r].pc = "done", ![r].status = 409,
                                      ![r].retries = @ + 1, ![r].err = kind]
                    ELSE [creq EXCEPT ![r].pc = "backoff", ![r].retries = @ + 1, ![r].err = kind]
               ELSE [creq EXCEPT ![r].pc = "done", ![r].status = 500, ![r].err = kind]
  /\ UNCHANGED <<otherVars, product, cart, cart0, overlap, orderVars>>

\* The backoff timer fires and the loop starts its next attempt.
Backoff(r) ==
  /\ creq[r].pc = "backoff"
  /\ creq' = [creq EXCEPT ![r].pc = "findProduct", ![r].attempts = @ + 1]
  /\ UNCHANGED <<otherVars, product, cart, cart0, overlap, orderVars>>

\* All responses of the batch have been sent; the slots are free again.
Recycle ==
  /\ \A r \in CReqs : ~InFlightC(r)
  /\ \E r \in CReqs : creq[r].pc = "done"
  /\ creq' = [r \in CReqs |-> IdleC]
  /\ UNCHANGED <<otherVars, product, cart, cart0, overlap, orderVars>>


\* =========================================================== order placement
MAX_INVOICE_ATTEMPTS == 10
NInvNums == 2      \* distinct invoice numbers the generator can produce
MaxAdminOps == 1   \* admin operations per behaviour

OReqs == {"o1", "o2"}
InvNums == 1..NInvNums
\* req.body of adminUpdateProductService: a rename with a new price, a price of 0
Update(hn, n, hp, p) == [hasName |-> hn, name |-> n, hasPrice |-> hp, price |-> p]
UpdateInputs == { Update(TRUE, "b", TRUE, 10), Update(FALSE, "", TRUE, 0) }
Statuses == {"payment_confirmed", "completed"}

Item(p, q) == [product |-> p, quantity |-> q]

\* req.body.totalAmount (hasTotal: the field is present), shippingAmount, textAmount
Amounts(h, t, s, x) == [hasTotal |-> h, total |-> t, ship |-> s, text |-> x]

\* the requests that are issued: who orders, req.body.orderItems, the amounts
\* (shipOk: shippingInfo is present and complete; authed: req.user resolves)
Order(u, its, am, ok, au) ==
  [user |-> u, items |-> its, amounts |-> am, shipOk |-> ok, authed |-> au]
OrderInputs ==
  { Order("u1", <<>>, Amounts(FALSE, 0, 2, 0), TRUE, TRUE),
    Order("u2", <<>>, Amounts(FALSE, 0, 0, 1), TRUE, TRUE),
    Order("u2", <<Item("p1", 2), Item("p2", 1)>>, Amounts(FALSE, 0, 2, 0), TRUE, TRUE),
    Order("u1", <<Item("p1", 2), Item("p2", 1)>>, Amounts(TRUE, 7, 2, 0), TRUE, TRUE),
    Order("u1", <<Item("p2", 0)>>, Amounts(TRUE, 0, 2, 1), TRUE, TRUE),
    Order("u2", <<Item("p3", 1)>>, Amounts(FALSE, 0, 0, 0), TRUE, TRUE),
    Order("u1", <<Item("p1", -1)>>, Amounts(FALSE, 0, 0, 0), TRUE, TRUE),
    Order("u2", <<Item(None, 1)>>, Amounts(FALSE, 0, 0, 0), TRUE, TRUE),
    Order("u2", <<>>, Amounts(FALSE, 0, 0, 0), FALSE, TRUE),
    Order("u2", <<>>, Amounts(FALSE, 0, 0, 0), TRUE, FALSE) }

\* the requests issued while admin operations run: a cart order, an order with
\* explicit items, an order on an empty cart
SequentialInputs ==
  { Order("u1", <<>>, Amounts(FALSE, 0, 2, 0), TRUE, TRUE),
    Order("u2", <<Item("p1", 2), Item("p2", 1)>>, Amounts(FALSE, 0, 2, 0), TRUE, TRUE),
    Order("u2", <<>>, Amounts(FALSE, 0, 0, 1), TRUE, TRUE) }

NoOrder == [saved |-> FALSE, user |-> None, email |-> None, orderItems |-> <<>>, subTotal |-> 0,
            totalAmount |-> 0, shippingAmount |-> 0, textAmount |-> 0,
            orderStatus |-> None, statusHistory |-> <<>>, transitions |-> 0,
            invoice |-> None, invoiceNumber |-> 0]

NoInvoice == [saved |-> FALSE, order |-> None, invoiceNumber |-> 0, amountDue |-> 0]

IdleO == [pc |-> "idle", user |-> None, shipOk |-> FALSE, authed |-> FALSE,
          items |-> <<>>, amounts |-> Amounts(FALSE, 0, 0, 0),
          loaded |-> FALSE, cartLen |-> 0, todo |-> <<>>, final |-> <<>>,
          subTotal |-> 0, computedTotal |-> 0, invoiceNumber |-> 0, attempts |-> 0,
          collided |-> 0, freeCand |-> 0, status |-> 0, fail |-> None,
          steps |-> <<>>, clear |-> None, failedAt |-> None, email |-> None]

\* authUser.cart.items mapped to {product, quantity}; a populated reference
\* to a product that no longer exists is null
CartItems(items) ==
  [i \in 1..Len(items) |->
     Item(IF product[items[i].productId].exists THEN items[i].productId ELSE None,
          items[i].quantity)]

\* requestedItems.length ? requestedItems : cartItems
ItemsToProcess(requested, cartItems) == IF Len(requested) > 0 THEN requested ELSE cartItems

\* (mutant) the empty check never rejects
NothingToProcess_m(items) == FALSE

\* !itemsToProcess.length
NothingToProcess(items) == Len(items) = 0

\* item.quantity || 1
QuantityOrOne(q) == IF q = 0 THEN 1 ELSE q

\* one element of finalItemsToOrder
OrderLine(p, q) == [product |-> p, quantity |-> q,
                    unitPrice |-> product[p].price, nameSnapshot |-> product[p].name]

\* (totalAmount || subTotal + shippingAmount + textAmount)
ComputedTotal(a, subTotal) ==
  IF a.hasTotal /\ a.total # 0 THEN a.total ELSE subTotal + a.ship + a.text

RECURSIVE SumLines(_)
SumLines(lines) ==
  IF lines = <<>> THEN 0
  ELSE Head(lines).unitPrice * Head(lines).quantity + SumLines(Tail(lines))

\* one element of statusHistory: {status, note, changedBy}
HistoryEntry(st, by) == [status |-> st, changedBy |-> by]

\* (mutant) the order is built with the invoice number already filled in
NewOrder_m(rq) ==
  [saved |-> TRUE, user |-> rq.user, email |-> rq.email, orderItems |-> rq.final, subTotal |-> rq.subTotal,
   totalAmount |-> rq.computedTotal, shippingAmount |-> rq.amounts.ship,
   textAmount |-> rq.amounts.text, orderStatus |-> "awaiting_payment",
   statusHistory |-> <<HistoryEntry("awaiting_payment", rq.user)>>, transitions |-> 1,
   invoice |-> None, invoiceNumber |-> 1]

\* new Order({...}): no invoice fields yet
NewOrder(rq) ==
  [saved |-> TRUE, user |-> rq.user, email |-> rq.email, orderItems |-> rq.final, subTotal |-> rq.subTotal,
   totalAmount |-> rq.computedTotal, shippingAmount |-> rq.amounts.ship,
   textAmount |-> rq.amounts.text, orderStatus |-> "awaiting_payment",
   statusHistory |-> <<HistoryEntry("awaiting_payment", rq.user)>>, transitions |-> 1,
   invoice |-> None, invoiceNumber |-> 0]

\* (mutant) off-by-one in the exhaustion test
InvoiceExhausted_m(attempts) == attempts > MAX_INVOICE_ATTEMPTS

\* attempts >= 10
InvoiceExhausted(attempts) == attempts >= MAX_INVOICE_ATTEMPTS

\* Invoice.exists({ invoiceNumber })
InvoiceExists(n) == \E i \in OReqs : inv[i].saved /\ inv[i].invoiceNumber = n

\* the unique index on Invoice.invoiceNumber rejects a second document
UniqueIndexRejects(n) == InvoiceExists(n)

\* (mutant) the invoice is stored under a freshly generated number
NewInvoice_m(o, n, amount) ==
  [saved |-> TRUE, order |-> o, invoiceNumber |-> (n % NInvNums) + 1, amountDue |-> amount]

\* Invoice.create({ order, invoiceNumber, amountDue, ... })
NewInvoice(o, n, amount) ==
  [saved |-> TRUE, order |-> o, invoiceNumber |-> n, amountDue |-> amount]

\* (mutant) the back-fill save writes the populated items back with live prices
BackfillOrder_m(order, invId, n) ==
  [order EXCEPT !.invoice = invId, !.invoiceNumber = n,
                !.orderItems = [i \in 1..Len(order.orderItems) |->
                                  OrderLine(order.orderItems[i].product,
                                            order.orderItems[i].quantity)]]

\* orderedItem.invoice = ...; orderedItem.invoiceNumber = ...; save()
BackfillOrder(order, invId, n) == [order EXCEPT !.invoice = invId, !.invoiceNumber = n]

\* authUser.clearCart()
ClearedCart == <<>>

\* (mutant) the cart is cleared only when the order was built from it
ClearsCart_m(rq) == rq.items = <<>>

\* the clearCart block is not conditional on where the items came from
ClearsCart(rq) == TRUE

\* catch around Invoice.create: createHttpError(500, 'Failed to create invoice: ...')
\* whatever the error is
MapInvoiceError(kind) == 500

\* (mutant) the duplicate-key test is missing from the outer catch
MapError_m(kind) ==
  IF kind = "validation" THEN 400
  ELSE IF kind = "cast" THEN 400
  ELSE 500

\* outer catch of postOrderService
MapError(kind) ==
  IF kind = "validation" THEN 400
  ELSE IF kind = "cast" THEN 400
  ELSE IF kind = "duplicate" THEN 409
  ELSE 500

\* findOneAndUpdate({_id}, {orderStatus}): the update document names
\* orderStatus alone (transitions is history: how often orderStatus was written)
ApplyStatusUpdate(order, st) == [order EXCEPT !.orderStatus = st, !.transitions = @ + 1]

\* name || product.name ; price || product.price
UpdatedProduct(doc, hasName, name, hasPrice, price) ==
  [doc EXCEPT !.name = IF hasName THEN name ELSE @,
              !.price = IF hasPrice /\ price # 0 THEN price ELSE @]

\* (mutant) the cart is cleared right after Invoice.create, the back-fill skipped
NextStep_m(pc) ==
  IF pc = "saveOrder" THEN "settings"
  ELSE IF pc = "genPdf" THEN "createInvoice"
  ELSE IF pc = "createInvoice" THEN "clearCart"
  ELSE "clearCart"

\* the statement that follows each awaited call of the success path
NextStep(pc) ==
  IF pc = "saveOrder" THEN "settings"
  ELSE IF pc = "genPdf" THEN "createInvoice"
  ELSE IF pc = "createInvoice" THEN "backfill"
  ELSE "clearCart"

\* what runs once clearCart has settled: both e-mails are dispatched (not
\* awaited), then the 201 is sent
AfterClearCart == <<"cartClearAttempted", "emailsDispatched", "responded201">>

\* the awaited call of the request has completed: continue with the next
\* statement (steps is history: the completed steps in order)
Completed(o, what) ==
  [oreq EXCEPT ![o].pc = NextStep(@), ![o].steps = Append(@, what)]

\* the request slots are interchangeable: o2 is used only once o1 is
Earlier(o) == IF o = "o2" THEN {"o1"} ELSE {}

\* return next(createHttpError(st, ...)): the request is over and its locals
\* are gone; what it was asked and what it observed is kept for the claims
Fail(o, st, why) ==
  [oreq EXCEPT ![o] = [IdleO EXCEPT !.pc = "done", !.status = st, !.fail = why,
                                    !.failedAt = oreq[o].pc,
                                    !.user = oreq[o].user, !.shipOk = oreq[o].shipOk,
                                    !.authed = oreq[o].authed, !.items = oreq[o].items,
                                    !.amounts = oreq[o].amounts, !.loaded = oreq[o].loaded,
                                    !.cartLen = oreq[o].cartLen, !.collided = oreq[o].collided,
                                    !.freeCand = oreq[o].freeCand]]

\* Request received; shippingInfo is validated before the first await.
Receive(o, inputs) ==
  /\ oreq[o].pc = "idle"
  /\ \E in \in inputs :
       LET rq == [IdleO EXCEPT !.user = in.user, !.shipOk = in.shipOk, !.authed = in.authed,
                               !.items = in.items, !.amounts = in.amounts]
       IN oreq' = [oreq EXCEPT ![o] =
                     IF in.shipOk THEN [rq EXCEPT !.pc = "loadUser"]
                     ELSE [rq EXCEPT !.pc = "done", !.status = 400, !.fail = "shipping"]]
  /\ UNCHANGED <<otherVars, product, cartVars, ord, inv, adminOps>>

\* Requests arrive at any time, also while another is being served.
StartOrder(o) ==
  /\ \A e \in Earlier(o) : oreq[e].pc # "idle"
  /\ Receive(o, OrderInputs)

\* Requests arrive one after the other.
StartOrderAfter(o) ==
  /\ \A e \in Earlier(o) : oreq[e].pc = "done"
  /\ Receive(o, SequentialInputs)

\* User.findById(...).populate('cart.items.productId'), then the item set.
LoadUser(o) ==
  /\ oreq[o].pc = "loadUser"
  /\ LET rq == oreq[o]
         todo == ItemsToProcess(rq.items, CartItems(cart[rq.user]))
     IN oreq' =
          IF ~rq.authed THEN Fail(o, 401, "auth")
          ELSE IF NothingToProcess(todo)
               THEN [oreq EXCEPT ![o].pc = "done", ![o].status = 402, ![o].fail = "empty",
                                 ![o].loaded = TRUE, ![o].cartLen = Len(cart[rq.user])]
               ELSE [oreq EXCEPT ![o].pc = "priceItem", ![o].todo = todo,
                                 ![o].email = emailOf[rq.user],
                                 ![o].loaded = TRUE, ![o].cartLen = Len(cart[rq.user])]
  /\ UNCHANGED <<otherVars, product, cartVars, ord, inv, adminOps>>

\* One iteration of the item loop (Product.findById is its await); after the
\* last item the total, the address/name checks and the Order construction.
PriceItem(o) ==
  /\ oreq[o].pc = "priceItem"
  /\ LET rq == oreq[o]
         item == IF rq.todo = <<>> THEN Item(None, 0) ELSE Head(rq.todo)
         quantity == QuantityOrOne(item.quantity)
     IN IF rq.todo = <<>>
        THEN \E named \in BOOLEAN :
               oreq' = IF ~named THEN Fail(o, 400, "name")
                       ELSE [oreq EXCEPT ![o].pc = "saveOrder",
                                         ![o].computedTotal = ComputedTotal(rq.amounts, rq.subTotal)]
        ELSE oreq' =
               IF item.product = None THEN Fail(o, 400, "item")
               ELSE IF ~product[item.product].exists THEN Fail(o, 400, "product")
               ELSE IF quantity < 1 THEN Fail(o, 400, "quantity")
               ELSE [oreq EXCEPT ![o].todo = Tail(rq.todo),
                                 ![o].subTotal = @ + product[item.product].price * quantity,
                                 ![o].final = Append(@, OrderLine(item.product, quantity))]
  /\ UNCHANGED <<otherVars, product, cartVars, ord, inv, adminOps>>

\* order.save()
SaveOrder(o) ==
  /\ oreq[o].pc = "saveOrder"
  /\ \E out \in {"ok", "validation", "cast", "duplicate", "other"} :
       IF out = "ok"
       THEN /\ ord' = [ord EXCEPT ![o] = NewOrder(oreq[o])]
            /\ oreq' = Completed(o, "orderSaved")
       ELSE /\ oreq' = Fail(o, MapError(out), out)
            /\ UNCHANGED ord
  /\ UNCHANGED <<otherVars, product, cartVars, inv, adminOps>>

\* populate, getOrCreatePlatformSettings, then the first generated candidate.
Settings(o) ==
  /\ oreq[o].pc = "settings"
  /\ \E n \in InvNums :
       oreq' = [oreq EXCEPT ![o].pc = "checkInvoice", ![o].invoiceNumber = n, ![o].attempts = 0]
  /\ UNCHANGED <<otherVars, product, cartVars, ord, inv, adminOps>>

\* One evaluation of the while condition (Invoice.exists is its await).
CheckInvoice(o) ==
  /\ oreq[o].pc = "checkInvoice"
  /\ LET rq == oreq[o]
         taken == InvoiceExists(rq.invoiceNumber)
         hits == rq.collided + (IF taken THEN 1 ELSE 0)
     IN IF taken /\ rq.attempts < MAX_INVOICE_ATTEMPTS
        THEN \E n \in InvNums :
               oreq' = [oreq EXCEPT ![o].invoiceNumber = n, ![o].attempts = @ + 1,
                                    ![o].collided = hits]
        ELSE IF InvoiceExhausted(rq.attempts)
             THEN oreq' = [Fail(o, 500, "invoice_exhausted") EXCEPT ![o].collided = hits]
             ELSE oreq' = [oreq EXCEPT ![o].pc = "genPdf", ![o].collided = hits,
                                       ![o].freeCand = IF taken THEN 0 ELSE rq.invoiceNumber]
  /\ UNCHANGED <<otherVars, product, cartVars, ord, inv, adminOps>>

\* generateInvoicePdf
GenPdf(o) ==
  /\ oreq[o].pc = "genPdf"
  /\ \E ok \in BOOLEAN :
       oreq' = IF ok THEN Completed(o, "pdfGenerated") ELSE Fail(o, 500, "pdf")
  /\ UNCHANGED <<otherVars, product, cartVars, ord, inv, adminOps>>

\* Invoice.create; every rejection is answered 500 by the inner catch.
CreateInvoice(o) ==
  /\ oreq[o].pc = "createInvoice"
  /\ LET rq == oreq[o]
         doc == NewInvoice(o, rq.invoiceNumber, rq.computedTotal)
     IN \E out \in {"ok", "validation", "cast", "duplicate", "other"} :
          LET kind == IF out = "ok" /\ UniqueIndexRejects(doc.invoiceNumber)
                      THEN "duplicate" ELSE out
          IN IF kind = "ok"
             THEN /\ inv' = [inv EXCEPT ![o] = doc]
                  /\ oreq' = Completed(o, "invoiceCreated")
             ELSE /\ oreq' = Fail(o, MapInvoiceError(kind), kind)
                  /\ UNCHANGED inv
  /\ UNCHANGED <<otherVars, product, cartVars, ord, adminOps>>

\* orderedItem.save({ validateBeforeSave: false })
Backfill(o) ==
  /\ oreq[o].pc = "backfill"
  /\ \E out \in {"ok", "cast", "duplicate", "other"} :
       IF out = "ok"
       THEN /\ ord' = [ord EXCEPT ![o] = BackfillOrder(ord[o], o, oreq[o].invoiceNumber)]
            /\ oreq' = Completed(o, "orderBackfilled")
       ELSE /\ oreq' = Fail(o, MapError(out), out)
            /\ UNCHANGED ord
  /\ UNCHANGED <<otherVars, product, cartVars, inv, adminOps>>

\* authUser.clearCart() inside its own try/catch, the two e-mails, the 201.
ClearCart(o) ==
  /\ oreq[o].pc = "clearCart"
  /\ \E ok \in BOOLEAN :
       LET tried == ClearsCart(oreq[o])
       IN /\ cart' = IF tried /\ ok THEN [cart EXCEPT ![oreq[o].user] = ClearedCart] ELSE cart
          /\ oreq' = [oreq EXCEPT ![o].pc = "done", ![o].status = 201, ![o].final = <<>>,
                                  ![o].subTotal = 0, ![o].attempts = 0,
                                  ![o].steps = @ \o AfterClearCart,
                                  ![o].clear = IF ~tried THEN None
                                               ELSE IF ok THEN "cleared" ELSE "failed"]
  /\ UNCHANGED <<otherVars, product, cart0, overlap, creq, ord, inv, adminOps>>

\* A read of the request rejects; the outer catch answers.
OrderReadSteps == {"loadUser", "priceItem", "settings", "checkInvoice"}

OrderThrow(o) ==
  /\ oreq[o].pc \in OrderReadSteps
  /\ oreq' = Fail(o, MapError("other"), "other")
  /\ UNCHANGED <<otherVars, product, cartVars, ord, inv, adminOps>>

\* adminUpdateProductService
AdminUpdateProduct ==
  /\ adminOps < MaxAdminOps
  /\ \E p \in ProductIds, in \in UpdateInputs :
       /\ product[p].exists
       /\ product' = [product EXCEPT ![p] =
                        UpdatedProduct(@, in.hasName, in.name, in.hasPrice, in.price)]
  /\ adminOps' = adminOps + 1
  /\ UNCHANGED <<otherVars, cartVars, ord, inv, oreq>>

\* adminDeleteProductService
AdminDeleteProduct ==
  /\ adminOps < MaxAdminOps
  /\ \E p \in ProductIds :
       /\ product[p].exists
       /\ product' = [product EXCEPT ![p].exists = FALSE]
  /\ adminOps' = adminOps + 1
  /\ UNCHANGED <<otherVars, cartVars, ord, inv, oreq>>

\* A response as the client sees it: the HTTP status line and the JSON body.
\* envelope: the body is the customResponse shape; status: the body's status field.
Response(http, envelope, status, text) ==
  [sent |-> TRUE, http |-> http, envelope |-> envelope, status |-> status, text |-> text]

NoResponse == [sent |-> FALSE, http |-> 0, envelope |-> FALSE, status |-> 0, text |-> ""]

\* adminUpdateOrderStatusService: res.status(201).send(customResponse({ ..., status: 200 }))
StatusUpdated == Response(201, TRUE, 200, "Successfully update order by ID")

\* adminUpdateOrderStatusService
AdminUpdateOrderStatus ==
  /\ adminOps < MaxAdminOps
  /\ \E o \in OReqs, st \in Statuses :
       /\ ord[o].saved
       /\ ord' = [ord EXCEPT ![o] = ApplyStatusUpdate(@, st)]
  /\ adminRes' = StatusUpdated
  /\ adminOps' = adminOps + 1
  /\ UNCHANGED <<quietVars, product, cartVars, inv, oreq>>

\* ============================================================ order deletion
MaxLifeOps == 2    \* deletions, e-mail changes and reports per behaviour

DeleteOps == {"clearSingleOrderService", "adminDeleteSingleOrderService"}

IdleD == [pc |-> "idle", op |-> None, user |-> None, target |-> None, status |-> 0,
          before |-> [o \in OReqs |-> NoOrder]]

\* no request of the followed clients is being served
Quiet ==
  /\ \A o \in OReqs : oreq[o].pc \in {"idle", "done"}
  /\ upd.pc = "idle"
  /\ del.pc = "idle"
  /\ report = <<>>

\* Order.deleteMany(filter): the collection afterwards (matching: the stored
\* orders the filter selects)
DeleteMany(matching) ==
  [o \in OReqs |-> IF ord[o].saved /\ o \in matching THEN NoOrder ELSE ord[o]]

\* deletedCount
DeletedCount(after) == Cardinality({o \in OReqs : ord[o].saved /\ ~after[o].saved})

\* deletedCount === 0 ? 400 : 200
BulkStatus(after) == IF DeletedCount(after) = 0 THEN 400 ELSE 200

\* a bulk deletion has been served
BulkDone(op, u, after) ==
  [IdleD EXCEPT !.pc = "done", !.op = op, !.user = u, !.status = BulkStatus(after),
                !.before = ord]

\* clearSingleOrderService (by a customer) or adminDeleteSingleOrderService
\* arrives for an order id
StartDeleteSingle ==
  /\ Quiet
  /\ lifeOps < MaxLifeOps
  /\ \E op \in DeleteOps, u \in Users \cup {None}, o \in OReqs :
       \* the admin service does not look at who calls
       /\ op = "adminDeleteSingleOrderService" <=> u = None
       /\ del' = [IdleD EXCEPT !.pc = "find", !.op = op, !.user = u, !.target = o,
                            !.before = ord]
  /\ lifeOps' = lifeOps + 1
  /\ UNCHANGED <<ord, report, notLife>>

\* Order.findById; clearSingleOrderService then compares user.userId with the caller
FindOrderToDelete ==
  /\ del.pc = "find"
  /\ del' = IF ~ord[del.target].saved THEN [del EXCEPT !.pc = "done", !.status = 400]
            ELSE IF del.op = "clearSingleOrderService" /\ ord[del.target].user # del.user
                 THEN [del EXCEPT !.pc = "done", !.status = 403]
                 ELSE [del EXCEPT !.pc = "remove"]
  /\ UNCHANGED <<ord, report, lifeOps, notLife>>

\* Order.findByIdAndRemove
RemoveOrder ==
  /\ del.pc = "remove"
  /\ IF ord[del.target].saved
     THEN /\ ord' = [ord EXCEPT ![del.target] = NoOrder]
          /\ del' = [del EXCEPT !.pc = "done", !.status = 200]
     ELSE /\ del' = [del EXCEPT !.pc = "done", !.status = 400]
          /\ UNCHANGED ord
  /\ UNCHANGED <<report, lifeOps, notLife>>

\* clearAllOrdersService: Order.deleteMany({ 'user.email': req.user.email })
ClearAllOrders ==
  /\ Quiet
  /\ lifeOps < MaxLifeOps
  /\ \E u \in Users :
       LET after == DeleteMany({o \in OReqs : ord[o].email = emailOf[u]})
       IN /\ ord' = after
          /\ del' = BulkDone("clearAllOrdersService", u, after)
  /\ lifeOps' = lifeOps + 1
  /\ UNCHANGED <<report, notLife>>

\* adminDeleteAllOrderForGivenUserService: Order.deleteMany({ 'user.userId': userId })
AdminDeleteAllOrderForGivenUser ==
  /\ Quiet
  /\ lifeOps < MaxLifeOps
  /\ \E u \in Users :
       LET after == DeleteMany({o \in OReqs : ord[o].user = u})
       IN /\ ord' = after
          /\ del' = BulkDone("adminDeleteAllOrderForGivenUserService", u, after)
  /\ lifeOps' = lifeOps + 1
  /\ UNCHANGED <<report, notLife>>

\* adminClearAllOrdersService: Order.deleteMany({})
AdminClearAllOrders ==
  /\ Quiet
  /\ lifeOps < MaxLifeOps
  /\ LET after == DeleteMany(OReqs)
     IN /\ ord' = after
        /\ del' = BulkDone("adminClearAllOrdersService", None, after)
  /\ lifeOps' = lifeOps + 1
  /\ UNCHANGED <<report, notLife>>

\* ================================================================= analytics
\* A value of the aggregation pipeline: a number, or null for a field the
\* document does not have.
Num(n) == [null |-> FALSE, n |-> n]
Null == [null |-> TRUE, n |-> 0]

\* '$orderItems.<field>'
FieldOf(line, field) == IF field \in DOMAIN line THEN Num(line[field]) ELSE Null

\* $multiply: null when an operand is null
Multiply(a, b) == IF a.null \/ b.null THEN Null ELSE Num(a.n * b.n)

RECURSIVE SumOf(_)
\* $sum: values that are not numbers count as 0
SumOf(values) ==
  IF values = <<>> THEN 0
  ELSE (IF Head(values).null THEN 0 ELSE Head(values).n) + SumOf(Tail(values))

RECURSIVE Unwind(_)
\* $unwind: '$orderItems' over the orders in S
Unwind(S) ==
  IF S = {} THEN <<>>
  ELSE LET o == CHOOSE x \in S : TRUE IN ord[o].orderItems \o Unwind(S \ {o})

\* the field names of the $group stage
QuantityField == "quantity"
PriceField == "price"

\* $group by '$orderItems.product'
GroupOf(lines, p) ==
  LET mine == SelectSeq(lines, LAMBDA l : l.product = p)
  IN [productId |-> p,
      quantitySold |-> SumOf([i \in 1..Len(mine) |-> FieldOf(mine[i], QuantityField)]),
      revenue |-> SumOf([i \in 1..Len(mine) |->
                           Multiply(FieldOf(mine[i], QuantityField),
                                    FieldOf(mine[i], PriceField))]),
      orderCount |-> Len(mine)]

Groups(lines) ==
  { GroupOf(lines, p) : p \in {lines[i].product : i \in 1..Len(lines)} }

Min(a, b) == IF a < b THEN a ELSE b

\* $sort: { revenue: -1 } then $limit: the order among equal revenues is
\* whatever the database produces
TopOf(groups, limit) ==
  { rows \in [1..Min(limit, Cardinality(groups)) -> groups] :
      /\ \A i, j \in DOMAIN rows : i < j => (rows[i] # rows[j] /\ rows[i].revenue >= rows[j].revenue)
      /\ \A g \in groups : (\A i \in DOMAIN rows : rows[i] # g) =>
                             \A i \in DOMAIN rows : rows[i].revenue >= g.revenue }

\* getTopProductsService (lines is history: the order lines it aggregated)
GetTopProducts ==
  /\ Quiet
  /\ lifeOps < MaxLifeOps
  /\ \E limit \in {1, 10} :
       LET lines == Unwind({o \in OReqs : ord[o].saved})
       IN \E rows \in TopOf(Groups(lines), limit) :
            report' = <<[rows |-> rows, lines |-> lines, limit |-> limit]>>
  /\ lifeOps' = lifeOps + 1
  /\ UNCHANGED <<ord, del, notLife>>

\* The response of a deletion or of the report has been sent; the next
\* request can be followed.
NextLife ==
  /\ del.pc = "done" \/ report # <<>>
  /\ del' = IdleD
  /\ report' = <<>>
  /\ UNCHANGED <<ord, lifeOps, notLife>>

\* the orders placed while deletions run: a cart order of u1 and an order of
\* u2 with explicit items
LifeInputs ==
  { Order("u1", <<>>, Amounts(FALSE, 0, 2, 0), TRUE, TRUE),
    Order("u2", <<Item("p1", 2), Item("p2", 1)>>, Amounts(FALSE, 0, 2, 0), TRUE, TRUE) }

\* an order is placed while no other request of the followed clients is served
StartOrderQuiet(o) ==
  /\ Quiet
  /\ \A e \in Earlier(o) : oreq[e].pc = "done"
  /\ Receive(o, LifeInputs)

\* ============================================================ invoice access
\* Strings whose letters matter are sequences of one-character strings.
UpperToLower ==
  ("A" :> "a") @@ ("C" :> "c") @@ ("D" :> "d") @@ ("E" :> "e") @@ ("I" :> "i") @@
  ("L" :> "l") @@ ("M" :> "m") @@ ("N" :> "n") @@ ("T" :> "t")

\* String.prototype.toLowerCase
ToLowerCase(str) ==
  [i \in 1..Len(str) |-> IF str[i] \in DOMAIN UpperToLower THEN UpperToLower[str[i]] ELSE str[i]]

RECURSIVE TrimStart(_)
TrimStart(str) == IF str # <<>> /\ Head(str) = " " THEN TrimStart(Tail(str)) ELSE str

RECURSIVE TrimEnd(_)
TrimEnd(str) ==
  IF str # <<>> /\ str[Len(str)] = " " THEN TrimEnd(SubSeq(str, 1, Len(str) - 1)) ELSE str

\* String.prototype.trim
Trim(str) == TrimEnd(TrimStart(str))

\* (mutant) the role is compared as stored
NormalizeRole_m(role) == role

\* String(req.user.role || '').toLowerCase().trim()
NormalizeRole(role) == Trim(ToLowerCase(role))

\* authorizationRoles.admin, authorizationRoles.client
RoleAdmin == <<"a", "d", "m", "i", "n">>
RoleClient == <<"c", "l", "i", "e", "n", "t">>

\* req.user.role as stored on the calling user (<<>>: no role)
RoleInputs ==
  { RoleAdmin, RoleClient, <<>>,
    <<"A", "d", "m", "i", "n">>,
    <<" ", "a", "d", "m", "i", "n", " ">>,
    <<"C", "L", "I", "E", "N", "T">>,
    <<"c", "l", "i", "e", "n", "t", " ">>,
    <<"u", "s", "e", "r">>,
    <<"m", "a", "n", "a", "g", "e", "r">>,
    <<"a", "d", " ", "m", "i", "n">> }

\* order.user.userId of the stored order (None: the reference resolves to nothing)
OwnerInputs == Users \cup {None}

IdleA == [pc |-> "idle", orderExists |-> FALSE, owner |-> None, caller |-> None,
          role |-> <<>>, hasInvoice |-> FALSE, status |-> 0]

\* orderUserId === currentUserId
IsOrderOwner(owner, caller) == owner = caller

\* !isOrderOwner && !isAdmin && !isClient
AccessDenied(owner, caller, role) ==
  /\ ~IsOrderOwner(owner, caller)
  /\ NormalizeRole(role) # NormalizeRole(RoleAdmin)
  /\ NormalizeRole(role) # NormalizeRole(RoleClient)

\* A caller asks for the invoice of an order.
GetInvoice ==
  /\ access.pc = "idle"
  /\ \E ex \in BOOLEAN, ow \in OwnerInputs, c \in Users, r \in RoleInputs, hi \in BOOLEAN :
       access' = [IdleA EXCEPT !.pc = "findOrder", !.orderExists = ex, !.owner = ow,
                               !.caller = c, !.role = r, !.hasInvoice = hi]
  /\ UNCHANGED notAccess

\* Order.findById, then the access check.
FindOrder ==
  /\ access.pc = "findOrder"
  /\ access' = IF ~access.orderExists THEN [access EXCEPT !.pc = "done", !.status = 400]
                ELSE IF AccessDenied(access.owner, access.caller, access.role)
                     THEN [access EXCEPT !.pc = "done", !.status = 403]
                     ELSE [access EXCEPT !.pc = "findInvoice"]
  /\ UNCHANGED notAccess

\* Invoice.findOne({ order }), then the document is served.
FindInvoice ==
  /\ access.pc = "findInvoice"
  /\ access' = [access EXCEPT !.pc = "done",
                              !.status = IF access.hasInvoice THEN 200 ELSE 404]
  /\ UNCHANGED notAccess

\* The response has been sent; the next request can be followed.
NextAccess ==
  /\ access.pc = "done"
  /\ access' = IdleA
  /\ UNCHANGED notAccess

AccessNext == GetInvoice \/ FindOrder \/ FindInvoice \/ NextAccess

\* ========================================================= admin user update
AuthUsers == {"a1", "a2"}
Accounts == AuthUsers \cup Users
Emails == {"ea1", "ea2", "eu1", "eu2", "ex"}
MaxUploads == 2    \* files uploaded to the external storage per behaviour
NoImage == 0       \* cloudinary_id is not set
NoFile == 0        \* req.file.filename is not set

\* req.body.role (<<>>: not supplied)
BodyRoles == { <<>>, RoleAdmin, RoleClient, <<"A", "d", "m", "i", "n">> }

\* one request: who asks, req.params.userId (None: no such user),
\* req.body.role, req.body.email (None: not supplied), req.file is present,
\* the deployment is serverless (the file is a memory buffer, not a disk file)
AuthInput(c, t, r, e, f, sl) ==
  [caller |-> c, target |-> t, role |-> r, email |-> e, file |-> f, serverless |-> sl]

\* role changes, with and without an e-mail that is a1's
AuthInputs ==
  { AuthInput(c, t, r, e, FALSE, FALSE) :
      c \in AuthUsers, t \in AuthUsers \cup {None}, r \in BodyRoles, e \in {None, "ea1"} }

\* an admin changes the e-mail address of a customer
EmailInputs == { AuthInput("a1", "u1", <<>>, e, FALSE, FALSE) : e \in {"eu2", "ex"} }

\* an admin replaces a profile image
FileInputs ==
  { AuthInput("a1", t, r, e, TRUE, sl) :
      t \in {"a1", None}, r \in {<<>>, RoleClient}, e \in {None, "ea2"}, sl \in BOOLEAN }

IdleU == [pc |-> "idle", caller |-> None, target |-> None, role |-> <<>>, email |-> None,
          file |-> FALSE, serverless |-> FALSE, filename |-> NoFile, emailTaken |-> FALSE, loaded |-> <<>>,
          loadedEmail |-> None, loadedImage |-> NoImage, destroyed |-> NoImage,
          uploaded |-> NoImage, before |-> <<>>, status |-> 0]

\* the route is open to callers whose role is admin
IsAdminCaller(u) == roleOf[u] = RoleAdmin

\* (mutant) the identity test of the guard is inverted
SelfDemotion_m(caller, target, role) == role # <<>> /\ caller # target /\ role # RoleAdmin

\* req.body.role && req.user._id.equals(user._id) && req.body.role !== authorizationRoles.admin
SelfDemotion(caller, target, role) == role # <<>> /\ caller = target /\ role # RoleAdmin

\* user.role = req.body.role || user.role
NewRole(bodyRole, current) == IF bodyRole # <<>> THEN bodyRole ELSE current

\* user.email = email || user.email
NewEmail(bodyEmail, current) == IF bodyEmail # None THEN bodyEmail ELSE current

\* existingUser && !existingUser._id.equals(user._id)
EmailOfAnother(email, target) == \E u \in Accounts \ {target} : emailOf[u] = email

\* req.file ? (cloudinaryResult?.public_id || current) : current
NewImageId(file, uploaded, current) ==
  IF file /\ uploaded # NoImage THEN uploaded ELSE current

\* the upload middleware writes req.file to the uploads folder under a new name
Staged == [files |-> disk.files \cup {disk.staged + 1}, staged |-> disk.staged + 1]

\* deleteFile(localFilePath), guarded by req.file?.filename && !isServerless
DeleteStaged(filename) == [disk EXCEPT !.files = @ \ {filename}]

\* cloudinary.uploader.destroy(public_id)
Destroyed(id) == [cloud EXCEPT !.alive = @ \ {id}]

\* cloudinary.uploader.upload: a new image under a fresh public_id
Uploaded == [alive |-> cloud.alive \cup {cloud.made + 1}, made |-> cloud.made + 1]

\* what follows the lookups of adminUpdateAuthService: the old image is
\* destroyed when a file came and the user has one, the file is uploaded when
\* a file came, then the fields are assigned and saved
AfterChecks(file, image) ==
  IF file /\ image # NoImage THEN "destroy"
  ELSE IF file THEN "upload"
  ELSE "save"

\* An admin submits an update for a user id; in local mode the upload
\* middleware has staged the file on disk.
BeginUpdateAuth(inputs) ==
  /\ upd.pc = "idle"
  /\ \E in \in inputs :
       /\ IsAdminCaller(in.caller)
       /\ in.file => (cloud.made < MaxUploads /\ disk.staged < MaxUploads)
       /\ upd' = [IdleU EXCEPT !.pc = "findUser", !.caller = in.caller, !.target = in.target,
                              !.role = in.role, !.email = in.email, !.file = in.file,
                              !.serverless = in.serverless, !.before = roleOf,
                              !.filename = IF in.file /\ ~in.serverless
                                           THEN disk.staged + 1 ELSE NoFile]
       /\ disk' = IF in.file /\ ~in.serverless THEN Staged ELSE disk
  /\ UNCHANGED <<roleOf, emailOf, imageOf, cloud, notAuth>>

StartUpdateAuth == BeginUpdateAuth(AuthInputs) /\ UNCHANGED lifeOps

\* User.findById(req.params.userId), then the self-demotion guard.
FindUserToUpdate ==
  /\ upd.pc = "findUser"
  /\ upd' = IF upd.target = None THEN [upd EXCEPT !.pc = "done", !.status = 400]
            ELSE IF SelfDemotion(upd.caller, upd.target, upd.role)
                 THEN [upd EXCEPT !.pc = "done", !.status = 403]
                 ELSE [upd EXCEPT !.pc = IF upd.email # None THEN "checkEmail"
                                         ELSE AfterChecks(upd.file, imageOf[upd.target]),
                                  !.loaded = roleOf[upd.target],
                                  !.loadedEmail = emailOf[upd.target],
                                  !.loadedImage = imageOf[upd.target]]
  /\ UNCHANGED <<roleOf, emailOf, mediaVars, lifeOps, notAuth>>

\* User.findOne({ email }): 422, and the staged file removed, when the
\* address is another user's.
CheckEmail ==
  /\ upd.pc = "checkEmail"
  /\ IF EmailOfAnother(upd.email, upd.target)
     THEN /\ upd' = [upd EXCEPT !.pc = "done", !.status = 422, !.emailTaken = TRUE]
          /\ disk' = DeleteStaged(upd.filename)
     ELSE /\ upd' = [upd EXCEPT !.pc = AfterChecks(upd.file, upd.loadedImage)]
          /\ UNCHANGED disk
  /\ UNCHANGED <<roleOf, emailOf, imageOf, cloud, lifeOps, notAuth>>

\* cloudinary.uploader.destroy(user.cloudinary_id); a rejection reaches the
\* outer catch, which removes the staged file and answers 500.
DestroyUserImage ==
  /\ upd.pc = "destroy"
  /\ \E ok \in BOOLEAN :
       IF ok
       THEN /\ cloud' = Destroyed(upd.loadedImage)
            /\ upd' = [upd EXCEPT !.pc = "upload", !.destroyed = upd.loadedImage]
            /\ UNCHANGED disk
       ELSE /\ upd' = [upd EXCEPT !.pc = "done", !.status = 500]
            /\ disk' = DeleteStaged(upd.filename)
            /\ UNCHANGED cloud
  /\ UNCHANGED <<roleOf, emailOf, imageOf, lifeOps, notAuth>>

\* cloudinary.uploader.upload / upload_stream; the staged file is removed
\* after the upload and in the catch around it, which lets the update go on
\* without a new image.
UploadUserImage ==
  /\ upd.pc = "upload"
  /\ \E ok \in BOOLEAN :
       IF ok
       THEN /\ cloud' = Uploaded
            /\ upd' = [upd EXCEPT !.pc = "save", !.uploaded = cloud.made + 1]
       ELSE /\ upd' = [upd EXCEPT !.pc = "save"]
            /\ UNCHANGED cloud
  /\ disk' = DeleteStaged(upd.filename)
  /\ UNCHANGED <<roleOf, emailOf, imageOf, lifeOps, notAuth>>

\* The field assignments and user.save(); a rejected save reaches the outer
\* catch: the staged file is removed and 500 answered.
SaveUser ==
  /\ upd.pc = "save"
  /\ \E ok \in BOOLEAN :
       IF ok
       THEN /\ roleOf' = [roleOf EXCEPT ![upd.target] = NewRole(upd.role, upd.loaded)]
            /\ emailOf' = [emailOf EXCEPT ![upd.target] = NewEmail(upd.email, upd.loadedEmail)]
            /\ imageOf' = [imageOf EXCEPT ![upd.target] =
                             NewImageId(upd.file, upd.uploaded, upd.loadedImage)]
            /\ upd' = [upd EXCEPT !.pc = "done", !.status = 200]
            /\ UNCHANGED disk
       ELSE /\ upd' = [upd EXCEPT !.pc = "done", !.status = 500]
            /\ disk' = DeleteStaged(upd.filename)
            /\ UNCHANGED <<roleOf, emailOf, imageOf>>
  /\ UNCHANGED <<cloud, lifeOps, notAuth>>

\* The response has been sent; the next update can be followed.
NextUpdateAuth ==
  /\ upd.pc = "done"
  /\ upd' = IdleU
  /\ UNCHANGED <<roleOf, emailOf, mediaVars, lifeOps, notAuth>>

\* the steps of an update that brings no file
ServeUpdateFields == FindUserToUpdate \/ CheckEmail \/ SaveUser

ServeUpdateAuth == ServeUpdateFields \/ DestroyUserImage \/ UploadUserImage

AuthNext == StartUpdateAuth \/ ServeUpdateFields \/ NextUpdateAuth

\* ================================================== category and post update
\* updateCategoryService and adminUpdatePostService: the same steps, with
\* the differences named below.
MediaServices == {"updateCategoryService", "adminUpdatePostService"}

IdleM == [pc |-> "idle", svc |-> None, exists |-> FALSE, file |-> FALSE, serverless |-> FALSE,
          filename |-> NoFile, loadedImage |-> NoImage, destroyed |-> NoImage,
          uploaded |-> NoImage, status |-> 0]

\* the document whose image the service replaces
EntityOf(svc) == IF svc = "updateCategoryService" THEN "category" ELSE "post"

\* the file the service works with: updateCategoryService takes req.file as a
\* buffer (serverless) or by filename, adminUpdatePostService by filename only
HasUpload(svc, file, serverless) ==
  IF svc = "adminUpdatePostService" THEN file /\ ~serverless ELSE file

\* the catch block of updateCategoryService removes the staged file; the one
\* of adminUpdatePostService does not
CleansUpInCatch(svc) == svc = "updateCategoryService"

\* the catch blocks: updateCategoryService answers 400 to a validation, cast
\* or duplicate-key error and 500 otherwise, adminUpdatePostService always 500
MediaErrorStatus(svc, kind) ==
  IF svc = "updateCategoryService" /\ kind # "other" THEN 400 ELSE 500

\* the request fails in the catch block
MediaFailed(kind) ==
  [mreq EXCEPT !.pc = "done", !.status = MediaErrorStatus(mreq.svc, kind)]

DiskAfterCatch ==
  IF CleansUpInCatch(mreq.svc) THEN DeleteStaged(mreq.filename) ELSE disk

\* category.cloudinary_id = cloudinaryResult.public_id || current (when a file
\* came and was uploaded); post.cloudinary_id = filename ? public_id : current
SavedImageId(uploaded, current) == IF uploaded # NoImage THEN uploaded ELSE current

\* A request with or without a file, for a document that exists or not; in
\* local mode the upload middleware has staged the file on disk.
StartMediaUpdate ==
  /\ mreq.pc = "idle"
  /\ \E svc \in MediaServices, ex \in BOOLEAN, f \in BOOLEAN, sl \in BOOLEAN :
       /\ f => (cloud.made < MaxUploads /\ disk.staged < MaxUploads)
       /\ mreq' = [IdleM EXCEPT !.pc = "find", !.svc = svc, !.exists = ex, !.file = f,
                               !.serverless = sl,
                               !.filename = IF f /\ ~sl THEN disk.staged + 1 ELSE NoFile]
       /\ disk' = IF f /\ ~sl THEN Staged ELSE disk
  /\ UNCHANGED <<imageOf, cloud, notMedia>>

\* Category.findById / Post.findById: 400 when there is no such document.
FindMedia ==
  /\ mreq.pc = "find"
  /\ LET image == imageOf[EntityOf(mreq.svc)]
         upload == HasUpload(mreq.svc, mreq.file, mreq.serverless)
     IN mreq' = IF ~mreq.exists THEN [mreq EXCEPT !.pc = "done", !.status = 400]
                ELSE [mreq EXCEPT !.pc = AfterChecks(upload, image), !.loadedImage = image]
  /\ UNCHANGED <<mediaVars, notMedia>>

\* cloudinary.uploader.destroy of the old image
DestroyMediaImage ==
  /\ mreq.pc = "destroy"
  /\ \E ok \in BOOLEAN :
       IF ok
       THEN /\ cloud' = Destroyed(mreq.loadedImage)
            /\ mreq' = [mreq EXCEPT !.pc = "upload", !.destroyed = mreq.loadedImage]
            /\ UNCHANGED disk
       ELSE /\ mreq' = MediaFailed("other")
            /\ disk' = DiskAfterCatch
            /\ UNCHANGED cloud
  /\ UNCHANGED <<imageOf, notMedia>>

\* cloudinary.uploader.upload / upload_stream, then deleteFile(localFilePath)
UploadMediaImage ==
  /\ mreq.pc = "upload"
  /\ \E ok \in BOOLEAN :
       IF ok
       THEN /\ cloud' = Uploaded
            /\ mreq' = [mreq EXCEPT !.pc = "save", !.uploaded = cloud.made + 1]
            /\ disk' = DeleteStaged(mreq.filename)
       ELSE /\ mreq' = MediaFailed("other")
            /\ disk' = DiskAfterCatch
            /\ UNCHANGED cloud
  /\ UNCHANGED <<imageOf, notMedia>>

\* the field assignments and save()
SaveMedia ==
  /\ mreq.pc = "save"
  /\ \E out \in {"ok", "validation", "other"} :
       IF out = "ok"
       THEN /\ imageOf' = [imageOf EXCEPT ![EntityOf(mreq.svc)] =
                             SavedImageId(mreq.uploaded, mreq.loadedImage)]
            /\ mreq' = [mreq EXCEPT !.pc = "done", !.status = 200]
            /\ UNCHANGED disk
       ELSE /\ mreq' = MediaFailed(out)
            /\ disk' = DiskAfterCatch
            /\ UNCHANGED imageOf
  /\ UNCHANGED <<cloud, notMedia>>

\* The response has been sent; the next request can be followed.
NextMedia ==
  /\ mreq.pc = "done"
  /\ mreq' = IdleM
  /\ UNCHANGED <<mediaVars, notMedia>>

\* a profile image is replaced through adminUpdateAuthService
StartUpdateImage == BeginUpdateAuth(FileInputs) /\ UNCHANGED lifeOps

UploadNext ==
  \/ StartMediaUpdate
  \/ FindMedia
  \/ DestroyMediaImage
  \/ UploadMediaImage
  \/ SaveMedia
  \/ NextMedia
  \/ StartUpdateImage
  \/ ServeUpdateAuth
  \/ NextUpdateAuth

\* ================================================================== reviews
Reviewers == {"v1", "v2", "v3"}
Ratings == 1..5
Comments == {"fine", "poor"}

Review(u, r, c) == [user |-> u, rating |-> r, comment |-> c]

\* a product nobody has reviewed
Unreviewed == [reviews |-> <<>>, ratings |-> 0, numberOfReviews |-> 0]

IdleR == [pc |-> "idle", op |-> None, user |-> None, rating |-> 0, comment |-> None,
          productExists |-> FALSE, doc |-> Unreviewed, before |-> Unreviewed, status |-> 0]

\* product.reviews.find(rev => rev.user.toString() === req.user._id.toString())
IsAlreadyReview(reviews, u) == \E i \in 1..Len(reviews) : reviews[i].user = u

RECURSIVE SumRatings(_)
\* reviews.reduce((acc, rev) => acc + Number(rev.rating || 0), 0)
SumRatings(reviews) ==
  IF reviews = <<>> THEN 0 ELSE Head(reviews).rating + SumRatings(Tail(reviews))

\* (mutant) the decimals are cut off instead of rounded
AverageToFixed1_m(sum, count) == (10 * sum) \div count

\* Number((sum / count).toFixed(1)), in tenths: the nearest tenth, the larger
\* one when two are equally near
AverageToFixed1(sum, count) == (20 * sum + count) \div (2 * count)

\* (mutant) a resubmission is added as one more review
WithReview_m(doc, u, r, c) ==
  LET revs == <<Review(u, r, c)>> \o doc.reviews
  IN [doc EXCEPT !.reviews = revs, !.numberOfReviews = Len(revs),
                 !.ratings = AverageToFixed1(SumRatings(revs), Len(revs))]

\* addReviewService: overwrite the caller's review or unshift a new one, then
\* recompute ratings
WithReview(doc, u, r, c) ==
  LET revs == IF IsAlreadyReview(doc.reviews, u)
              THEN [i \in 1..Len(doc.reviews) |->
                      IF doc.reviews[i].user = u
                      THEN [doc.reviews[i] EXCEPT !.comment = c, !.rating = r]
                      ELSE doc.reviews[i]]
              ELSE <<Review(u, r, c)>> \o doc.reviews
  IN [doc EXCEPT !.reviews = revs,
                 !.numberOfReviews = IF IsAlreadyReview(doc.reviews, u) THEN @ ELSE Len(revs),
                 !.ratings = AverageToFixed1(SumRatings(revs), Len(revs))]

\* deleteReviewService: drop the caller's review, then recompute or reset
WithoutReview(doc, u) ==
  LET filtered == SelectSeq(doc.reviews, LAMBDA rev : rev.user # u)
  IN IF Len(filtered) > 0
     THEN [doc EXCEPT !.ratings = AverageToFixed1(SumRatings(filtered), Len(filtered)),
                      !.reviews = filtered, !.numberOfReviews = Len(filtered)]
     ELSE [doc EXCEPT !.reviews = <<>>, !.numberOfReviews = 0, !.ratings = 0]

\* A user adds (or resubmits) a review, or deletes their review.
StartReview ==
  /\ rv.pc = "idle"
  /\ \E op \in {"add", "delete"}, u \in Reviewers, r \in Ratings, c \in Comments,
         ex \in BOOLEAN :
       /\ op = "delete" => (r = 1 /\ c = "fine")
       /\ rv' = [IdleR EXCEPT !.pc = "findProduct", !.op = op, !.user = u,
                              !.rating = IF op = "add" THEN r ELSE 0,
                              !.comment = IF op = "add" THEN c ELSE None,
                              !.productExists = ex, !.before = reviewed]
  /\ UNCHANGED <<reviewed, notReview>>

\* Product.findById, the checks, and the changes made to the loaded document.
FindReviewedProduct ==
  /\ rv.pc = "findProduct"
  /\ rv' = IF ~rv.productExists THEN [rv EXCEPT !.pc = "done", !.status = 400]
            ELSE IF rv.op = "add"
                 THEN [rv EXCEPT !.pc = "save",
                                 !.doc = WithReview(reviewed, rv.user, rv.rating, rv.comment)]
                 ELSE IF ~IsAlreadyReview(reviewed.reviews, rv.user)
                      THEN [rv EXCEPT !.pc = "done", !.status = 403]
                      ELSE [rv EXCEPT !.pc = "save", !.doc = WithoutReview(reviewed, rv.user)]
  /\ UNCHANGED <<reviewed, notReview>>

\* product.save({ validateBeforeSave: true }); a rejection goes to next(error).
SaveReviewedProduct ==
  /\ rv.pc = "save"
  /\ \E ok \in BOOLEAN :
       IF ok
       THEN /\ reviewed' = rv.doc
            /\ rv' = [rv EXCEPT !.pc = "done", !.status = 200, !.doc = Unreviewed]
       ELSE /\ rv' = [rv EXCEPT !.pc = "done", !.status = 500, !.doc = Unreviewed]
            /\ UNCHANGED reviewed
  /\ UNCHANGED notReview

\* The response has been sent; the next review request can be followed.
NextReview ==
  /\ rv.pc = "done"
  /\ rv' = IdleR
  /\ UNCHANGED <<reviewed, notReview>>

ReviewNext == StartReview \/ FindReviewedProduct \/ SaveReviewedProduct \/ NextReview

\* ======================================================= serverless instance
\* api/index.ts.  One macrotask (module load, one handler invocation, the
\* settling of one connectDB promise) is one atomic step; the continuation of
\* an await on an already settled promise runs at the end of the macrotask
\* that reached it.
ModuleLoad == 0
Invocations == 1..NInvocations
Callers == {ModuleLoad} \cup Invocations

IdleCall == [pc |-> "idle", events |-> <<>>, outcome |-> None, res |-> NoResponse]

\* connectToDatabase: mongoose.connection.readyState === 1
AlreadyConnected == readyState = "connected"

\* What the synchronous part of ensureDatabaseConnection comes to.
EnsureStep ==
  IF dbInitialized THEN "skip"
  ELSE IF AlreadyConnected THEN "live"
  ELSE IF ~connectionString THEN "threw"
  ELSE "dial"

\* connectDB opens a connection unless the cached one is live.
ConnectDBDials == readyState # "connected"

\* Events of ensureDatabaseConnection before its caller's next statement runs.
EnsureBefore(step) ==
  CASE step = "skip" -> <<"ensureStarted", "ensureFinished">>
    [] step = "threw" -> <<"ensureStarted", "errorLogged">>
    [] OTHER -> <<"ensureStarted">>

\* Events of ensureDatabaseConnection once its caller's synchronous code has run.
EnsureAfter(step) ==
  IF step \in {"live", "threw"} THEN <<"ensureFinished">> ELSE <<>>

EnsureOutcome(step) ==
  CASE step = "skip" -> "skipped"
    [] step = "live" -> "live"
    [] step = "threw" -> "failed"
    [] OTHER -> None

\* The module-level and driver state after the macrotask that called
\* ensureDatabaseConnection.
EnsureEffect(step) ==
  /\ dbInitialized' = (dbInitialized \/ step \in {"live", "threw"})
  /\ IF step = "dial" /\ ConnectDBDials
       THEN readyState' = "connecting" /\ dials' = dials + 1
       ELSE UNCHANGED <<readyState, dials>>

\* ensureDatabaseConnection().catch(...) when the module loads
LoadModule ==
  /\ call[ModuleLoad].pc = "idle"
  /\ LET step == EnsureStep IN
       /\ EnsureEffect(step)
       /\ call' = [call EXCEPT ![ModuleLoad] =
                     [pc |-> IF step = "dial" THEN "connecting" ELSE "done",
                      events |-> EnsureBefore(step) \o EnsureAfter(step),
                      outcome |-> EnsureOutcome(step),
                      res |-> NoResponse]]
  /\ UNCHANGED <<notConn, app, connectionString>>

NotInitialized == Response(500, FALSE, 0, "Application not initialized")
InternalError == Response(500, FALSE, 0, "Internal server error")

\* The handler's statements after the call of ensureDatabaseConnection:
\* what they add to the events, and the response the handler itself sends.
DelegateEvents_m(throws, headersSent) ==
  IF ~app THEN <<"responded500">>
  ELSE IF throws /\ ~headersSent THEN <<"responded500">>
  ELSE <<>>
DelegateEvents(throws, headersSent) ==
  IF ~app THEN <<"responded500">>
  ELSE IF throws /\ ~headersSent THEN <<"delegated", "responded500">>
  ELSE <<"delegated">>

HandlerResponse(throws, headersSent) ==
  IF ~app THEN NotInitialized
  ELSE IF throws /\ ~headersSent THEN InternalError
  ELSE NoResponse

\* handler(req, res); throws: app(req, res) throws synchronously,
\* headersSent: it had begun its response before that.
Handler(h) ==
  /\ call[ModuleLoad].pc # "idle"
  /\ call[h].pc = "idle"
  /\ \E throws \in BOOLEAN, headersSent \in BOOLEAN :
       /\ headersSent => throws
       /\ LET step == EnsureStep IN
            /\ EnsureEffect(step)
            /\ call' = [call EXCEPT ![h] =
                 [pc |-> IF step = "dial" THEN "connecting" ELSE "done",
                  events |-> EnsureBefore(step) \o DelegateEvents(throws, headersSent)
                               \o EnsureAfter(step),
                  outcome |-> EnsureOutcome(step),
                  res |-> HandlerResponse(throws, headersSent)]]
  /\ UNCHANGED <<notConn, app, connectionString>>

Settled(c, events, outcome) ==
  [call EXCEPT ![c].pc = "done", ![c].events = @ \o events, ![c].outcome = outcome]

\* await connectDB(connectionString) resolves; dbInitialized = true
ConnectResolved(c) ==
  /\ call[c].pc = "connecting"
  /\ readyState' = "connected"
  /\ dbInitialized' = TRUE
  /\ call' = Settled(c, <<"ensureFinished">>, "connected")
  /\ UNCHANGED <<notConn, app, connectionString, dials>>

\* await connectDB(connectionString) rejects; the error is logged and
\* swallowed, and dbInitialized = true all the same
ConnectRejected(c) ==
  /\ call[c].pc = "connecting"
  /\ readyState' =
       IF readyState = "connected" THEN "connected"
       ELSE IF \E d \in Callers \ {c} : call[d].pc = "connecting" THEN "connecting"
       ELSE "disconnected"
  /\ dbInitialized' = TRUE
  /\ call' = Settled(c, <<"errorLogged", "ensureFinished">>, "failed")
  /\ UNCHANGED <<notConn, app, connectionString, dials>>

ServerlessNext ==
  \/ LoadModule
  \/ \E h \in Invocations : Handler(h)
  \/ \E c \in Callers : ConnectResolved(c) \/ ConnectRejected(c)

\* -------------------------------------------------------------------- Init
\* The two admins, the two customers; a1, the category and the post have an
\* image in the external storage.
InitRoles == [u \in Accounts |-> IF u \in AuthUsers THEN RoleAdmin ELSE RoleClient]

InitEmails ==
  [u \in Accounts |->
     CASE u = "a1" -> "ea1" [] u = "a2" -> "ea2" [] u = "u1" -> "eu1" [] OTHER -> "eu2"]

InitImages ==
  [e \in Accounts \cup {"category", "post"} |->
     IF e = "a1" THEN -1 ELSE IF e = "category" THEN -2 ELSE IF e = "post" THEN -3 ELSE NoImage]

\* the images uploaded from now on get the ids 1, 2, ...
InitCloud == [alive |-> {-1, -2, -3}, made |-> 0]

InitOther ==
  /\ access = IdleA
  /\ roleOf = InitRoles
  /\ emailOf = InitEmails
  /\ upd = IdleU
  /\ imageOf = InitImages
  /\ cloud = InitCloud
  /\ disk = [files |-> {}, staged |-> 0]
  /\ mreq = IdleM
  /\ del = IdleD
  /\ report = <<>>
  /\ lifeOps = 0
  /\ reviewed = Unreviewed
  /\ rv = IdleR
  /\ adminRes = NoResponse
  /\ app = TRUE
  /\ connectionString = TRUE
  /\ dbInitialized = FALSE
  /\ readyState = "disconnected"
  /\ dials = 0
  /\ call = [c \in Callers |-> IdleCall]

Init ==
  /\ product = [p \in ProductIds |->
                 [exists |-> p # "p3", price |-> 5, name |-> "a"]]
  /\ cart = [u \in Users |-> <<>>]
  /\ cart0 = cart
  /\ overlap = FALSE
  /\ creq = [r \in CReqs |-> IdleC]
  /\ ord = [o \in OReqs |-> NoOrder]
  /\ inv = [o \in OReqs |-> NoInvoice]
  /\ oreq = [o \in OReqs |-> IdleO]
  /\ adminOps = 0
  /\ InitOther

\* Carts as earlier cart requests left them when the first order arrives.
InitCarts == [u \in Users |-> IF u = "u1" THEN <<Line("p1", 2), Line("p2", 1)>> ELSE <<>>]

InitOrder ==
  /\ product = [p \in ProductIds |->
                 [exists |-> p # "p3", price |-> 5, name |-> "a"]]
  /\ cart = InitCarts
  /\ cart0 = cart
  /\ overlap = FALSE
  /\ creq = [r \in CReqs |-> IdleC]
  /\ ord = [o \in OReqs |-> NoOrder]
  /\ inv = [o \in OReqs |-> NoInvoice]
  /\ oreq = [o \in OReqs |-> IdleO]
  /\ adminOps = 0
  /\ InitOther

ServeOrder(o) ==
  \/ LoadUser(o)
  \/ PriceItem(o)
  \/ SaveOrder(o)
  \/ Settings(o)
  \/ CheckInvoice(o)
  \/ GenPdf(o)
  \/ CreateInvoice(o)
  \/ Backfill(o)
  \/ ClearCart(o)
  \/ OrderThrow(o)

\* concurrent order placement
OrderNext == \E o \in OReqs : StartOrder(o) \/ ServeOrder(o)

\* order placement one request at a time, with the admin operations
OrderAdminNext ==
  \/ \E o \in OReqs : StartOrderAfter(o) \/ ServeOrder(o)
  \/ AdminUpdateProduct
  \/ AdminDeleteProduct
  \/ AdminUpdateOrderStatus

\* A cold start: the module is about to load; the application may have
\* failed to initialise and the connection string may be missing.
InitServerless ==
  /\ product = [p \in ProductIds |->
                 [exists |-> p # "p3", price |-> 5, name |-> "a"]]
  /\ cart = [u \in Users |-> <<>>]
  /\ cart0 = cart
  /\ overlap = FALSE
  /\ creq = [r \in CReqs |-> IdleC]
  /\ ord = [o \in OReqs |-> NoOrder]
  /\ inv = [o \in OReqs |-> NoInvoice]
  /\ oreq = [o \in OReqs |-> IdleO]
  /\ adminOps = 0
  /\ access = IdleA
  /\ roleOf = InitRoles
  /\ emailOf = InitEmails
  /\ upd = IdleU
  /\ imageOf = InitImages
  /\ cloud = InitCloud
  /\ disk = [files |-> {}, staged |-> 0]
  /\ mreq = IdleM
  /\ del = IdleD
  /\ report = <<>>
  /\ lifeOps = 0
  /\ reviewed = Unreviewed
  /\ rv = IdleR
  /\ adminRes = NoResponse
  /\ app \in BOOLEAN
  /\ connectionString \in BOOLEAN
  /\ dbInitialized = FALSE
  /\ readyState = "disconnected"
  /\ dials = 0
  /\ call = [c \in Callers |-> IdleCall]

SpecServerless == InitServerless /\ [][ServerlessNext]_vars

SpecAccess == Init /\ [][AccessNext]_vars

SpecAuth == Init /\ [][AuthNext]_vars

SpecUpload == Init /\ [][UploadNext]_vars

SpecReview == Init /\ [][ReviewNext]_vars

SpecOrder == InitOrder /\ [][OrderNext]_vars

SpecOrderAdmin == InitOrder /\ [][OrderAdminNext]_vars

\* an admin changes a customer's e-mail address
StartEmailUpdate ==
  /\ Quiet
  /\ lifeOps < MaxLifeOps
  /\ BeginUpdateAuth(EmailInputs)
  /\ lifeOps' = lifeOps + 1

\* orders, their deletion, e-mail changes and the sales report, one client
\* request at a time
OrderLifeNext ==
  \/ \E o \in OReqs : StartOrderQuiet(o) \/ ServeOrder(o)
  \/ StartDeleteSingle
  \/ FindOrderToDelete
  \/ RemoveOrder
  \/ ClearAllOrders
  \/ AdminDeleteAllOrderForGivenUser
  \/ AdminClearAllOrders
  \/ GetTopProducts
  \/ NextLife
  \/ StartEmailUpdate
  \/ ServeUpdateFields
  \/ NextUpdateAuth

SpecOrderLife == InitOrder /\ [][OrderLifeNext]_vars

CartStep(r) ==
  \/ StartCart(r)
  \/ FindProduct(r)
  \/ Decrement(r)
  \/ FetchUser(r)
  \/ Remove(r)
  \/ Increment(r)
  \/ Push(r)

CartNext == (\E r \in CReqs : CartStep(r)) \/ Recycle

\* One request at a time, each of whose database calls may reject.
FaultReq == "r1"

ReqProgress(r) == CartStep(r) \/ Throw(r) \/ Backoff(r)

CartFaultNext == ReqProgress(FaultReq) \/ Recycle

SpecCart == Init /\ [][CartNext]_vars

\* The event loop always resumes a pending request: weak fairness of its steps.
SpecCartFaults == Init /\ [][CartFaultNext]_vars /\ WF_vars(ReqProgress(FaultReq))

\* ================================================================== claims
BatchReqs == {r \in CReqs : creq[r].pc # "idle"}

AllDone(R) == \A r \in R : creq[r].pc = "done"

\* Two concurrent increases (the only requests of their batch) for the same
\* user and the same existing product.
TwoIncreases(r1, r2) ==
  /\ r1 # r2
  /\ BatchReqs = {r1, r2}
  /\ AllDone({r1, r2})
  /\ ~creq[r1].decrease /\ ~creq[r2].decrease
  /\ creq[r1].authed /\ creq[r2].authed
  /\ creq[r1].user = creq[r2].user
  /\ creq[r1].productId = creq[r2].productId
  /\ product[creq[r1].productId].exists

\* C1: two concurrent increase requests of one user for one product both
\* respond 201 and the total quantity recorded for the product is exactly 2
\* higher than before the two requests, whatever the interleaving and whether
\* or not the cart already held the product.
C1_NoLostUpdate ==
  \A r1, r2 \in CReqs :
    TwoIncreases(r1, r2) =>
      /\ creq[r1].status = 201 /\ creq[r2].status = 201
      /\ Qty(cart[creq[r1].user], creq[r1].productId)
           = Qty(cart0[creq[r1].user], creq[r1].productId) + 2

\* C1 witness: both increases found the product absent and both appended.
C1_Witness ==
  \E r1, r2 \in CReqs :
    /\ TwoIncreases(r1, r2)
    /\ ~HasProduct(cart0[creq[r1].user], creq[r1].productId)
    /\ Qty(cart[creq[r1].user], creq[r1].productId) = 2
    /\ Len(SelectSeq(cart[creq[r1].user], LAMBDA l : l.productId = creq[r1].productId)) = 2

AllQuantitiesPositive(c) == \A u \in Users : \A i \in 1..Len(c[u]) : c[u][i].quantity >= 1

\* C2: after any sequence (one request at a time) of increase and decrease
\* requests, every line of the user's cart has quantity >= 1.
C2_QuantityAtLeastOne == ~overlap => AllQuantitiesPositive(cart)

\* A decrease request that ran alone, for an existing product, on a cart
\* built by sequential requests and holding at most one line per product.
SoloDecrease(r) ==
  /\ BatchReqs = {r}
  /\ ~overlap
  /\ creq[r].pc = "done"
  /\ creq[r].decrease
  /\ creq[r].authed
  /\ product[creq[r].productId].exists

\* C3: a decrease for P removes P's line when its quantity is exactly 1,
\* makes it q-1 when it is q > 1, and answers 404 leaving the cart unchanged
\* when the cart has no line for P.
C3_DecreaseOutcome ==
  \A r \in CReqs :
    SoloDecrease(r) =>
      LET old == cart0[creq[r].user]
          new == cart[creq[r].user]
          p == creq[r].productId
      IN /\ (HasProduct(old, p) /\ Qty(old, p) = 1) => ~HasProduct(new, p)
         /\ (HasProduct(old, p) /\ Qty(old, p) > 1) =>
               (HasProduct(new, p) /\ Qty(new, p) = Qty(old, p) - 1)
         /\ ~HasProduct(old, p) => (creq[r].status = 404 /\ new = old)

RetryBounded ==
  \A r \in CReqs :
    /\ creq[r].attempts <= MAX_RETRIES
    /\ creq[r].attempts <= creq[r].retries + 1
    /\ creq[r].err = "other" => (creq[r].pc = "done" /\ creq[r].status = 500)
    /\ creq[r].status = 409 <=>
          (creq[r].pc = "done" /\ creq[r].err = "conflict" /\ creq[r].retries = MAX_RETRIES)
    /\ (creq[r].err = "conflict" /\ creq[r].retries = MAX_RETRIES) => creq[r].pc = "done"

\* C4: a request makes at most 3 attempts, re-attempts only after a version
\* conflict, ends at once on any other error, answers 409 when the 3rd
\* attempt conflicts, and every request that began eventually responds.
C4_BoundedRetry ==
  /\ []RetryBounded
  /\ \A r \in {FaultReq} : (creq[r].pc = "findProduct") ~> (creq[r].pc = "done")

\* C4 witness: the third attempt conflicted and the request answered 409.
C4_Witness ==
  \E r \in CReqs : creq[r].status = 409 /\ creq[r].attempts = 3 /\ creq[r].retries = 3

\* ------------------------------------------------------------ order claims
InvoicesOf(o) == {i \in OReqs : inv[i].saved /\ inv[i].order = o}

\* C5: a request with valid shipping info, no orderItems and an empty cart is
\* answered 402 and leaves neither an Order nor an Invoice document.
C5_EmptyCartRejected ==
  \A o \in OReqs :
    (oreq[o].loaded /\ oreq[o].items = <<>> /\ oreq[o].cartLen = 0) =>
      /\ oreq[o].pc = "done"
      /\ oreq[o].status = 402
      /\ ~ord[o].saved
      /\ InvoicesOf(o) = {}

\* C5 witness: an empty-cart request was answered 402.
C5_Witness ==
  \E o \in OReqs :
    oreq[o].status = 402 /\ oreq[o].items = <<>> /\ oreq[o].loaded /\ oreq[o].cartLen = 0

\* C6: every created order has subTotal = sum of unit price x quantity over
\* its items, and totalAmount = the supplied totalAmount when one is supplied,
\* otherwise subTotal + shippingAmount + textAmount.
C6_OrderTotals ==
  \A o \in OReqs :
    ord[o].saved =>
      /\ ord[o].subTotal = SumLines(ord[o].orderItems)
      /\ ord[o].totalAmount =
           IF oreq[o].amounts.hasTotal THEN oreq[o].amounts.total
           ELSE ord[o].subTotal + oreq[o].amounts.ship + oreq[o].amounts.text

\* C7: no step (product update or deletion, order-status update, further
\* order placement) changes the items of an order that already exists.
C7_ItemsImmutable ==
  [][\A o \in OReqs :
       ord[o].saved => (ord'[o].saved /\ ord'[o].orderItems = ord[o].orderItems)]_vars

\* C7 witness: a finished order holding a line whose snapshot differs from the
\* live product, after an admin operation.
C7_Witness ==
  \E o \in OReqs :
    /\ ord[o].saved
    /\ oreq[o].pc = "done"
    /\ adminOps > 0
    /\ \E i \in 1..Len(ord[o].orderItems) :
         LET l == ord[o].orderItems[i]
         IN l.unitPrice # product[l.product].price \/ l.nameSnapshot # product[l.product].name

\* C8: the number stored on the invoice (and on the order) is the first
\* candidate whose existence check found no invoice, reached after fewer than
\* 10 collisions; after 10 collisions the request goes no further than the
\* loop, ends with 500 and creates no invoice.
C8_InvoiceNumberChoice ==
  \A o \in OReqs :
    /\ inv[o].saved =>
         /\ oreq[o].freeCand # 0
         /\ inv[o].invoiceNumber = oreq[o].freeCand
         /\ oreq[o].collided < MAX_INVOICE_ATTEMPTS
    /\ (ord[o].saved /\ ord[o].invoiceNumber # 0) => ord[o].invoiceNumber = oreq[o].freeCand
    /\ oreq[o].collided >= MAX_INVOICE_ATTEMPTS =>
         /\ oreq[o].pc \in {"checkInvoice", "done"}
         /\ oreq[o].pc = "done" => oreq[o].status = 500
         /\ InvoicesOf(o) = {}

\* C8 witness: three candidates collided and the fourth was stored.
C8_Witness ==
  \E o \in OReqs : inv[o].saved /\ oreq[o].collided = 3 /\ ord[o].invoiceNumber = inv[o].invoiceNumber

\* C9: a request that fails because invoice numbers are exhausted answers 500
\* and leaves its saved order in place, without invoice reference or number.
C9_OrderKeptOnExhaustion ==
  \A o \in OReqs :
    oreq[o].fail = "invoice_exhausted" =>
      /\ oreq[o].status = 500
      /\ ord[o].saved
      /\ ord[o].invoice = None
      /\ ord[o].invoiceNumber = 0
      /\ InvoicesOf(o) = {}

\* C9 witness: an exhausted request whose order is still stored.
C9_Witness ==
  \E o \in OReqs : oreq[o].fail = "invoice_exhausted" /\ ord[o].saved /\ oreq[o].collided >= 10

\* C10: an order has at most one invoice, invoice numbers are pairwise
\* distinct, and a request answered 201 left exactly one invoice, which
\* references its order and carries the order's invoice number.
C10_OneInvoicePerOrder ==
  /\ \A o \in OReqs : Cardinality(InvoicesOf(o)) <= 1
  /\ \A i, j \in OReqs :
       (i # j /\ inv[i].saved /\ inv[j].saved) => inv[i].invoiceNumber # inv[j].invoiceNumber
  /\ \A o \in OReqs :
       oreq[o].status = 201 =>
         /\ ord[o].saved
         /\ \E i \in OReqs :
              /\ InvoicesOf(o) = {i}
              /\ ord[o].invoice = i
              /\ inv[i].invoiceNumber = ord[o].invoiceNumber

\* C10 witness: two requests were both answered 201, one of them after a collision.
C10_Witness ==
  \E i, j \in OReqs :
    /\ i # j
    /\ oreq[i].status = 201 /\ oreq[j].status = 201
    /\ oreq[i].collided > 0

\* C11: every saved order's statusHistory ends with an entry for its current
\* orderStatus and has one entry per status the order was given (creation
\* included), each naming who made the change.
C11_HistoryFollowsStatus ==
  \A o \in OReqs :
    ord[o].saved =>
      /\ Len(ord[o].statusHistory) = ord[o].transitions
      /\ ord[o].statusHistory[Len(ord[o].statusHistory)].status = ord[o].orderStatus
      /\ \A i \in 1..Len(ord[o].statusHistory) : ord[o].statusHistory[i].changedBy # None

OrderSteps ==
  <<"orderSaved", "pdfGenerated", "invoiceCreated", "orderBackfilled",
    "cartClearAttempted", "emailsDispatched", "responded201">>

\* C12: the completed steps of a request are always an initial part of: order
\* saved, PDF generated, invoice created, order back-filled, cart clear
\* attempted, e-mails dispatched, 201 sent; a 201 has all of them behind it, an
\* invoice exists only after its order and PDF, and the back-fill only after
\* the invoice.
C12_StepsInOrder ==
  \A o \in OReqs :
    LET done == oreq[o].steps
    IN /\ Len(done) <= Len(OrderSteps)
       /\ done = SubSeq(OrderSteps, 1, Len(done))
       /\ oreq[o].status = 201 =>
            (done = OrderSteps /\ ord[o].saved /\ inv[o].saved /\ ord[o].invoice # None)
       /\ oreq[o].pc = "clearCart" => ord[o].invoice # None
       /\ oreq[o].pc = "backfill" => inv[o].saved
       /\ oreq[o].pc \in {"genPdf", "createInvoice"} => (ord[o].saved /\ ~inv[o].saved)

\* C12 witness: a request answered 201 with all seven steps completed.
C12_Witness ==
  \E o \in OReqs : oreq[o].status = 201 /\ Len(oreq[o].steps) = 7

\* the request is over and both its order and its invoice are stored
Committed(o) == oreq[o].pc = "done" /\ ord[o].saved /\ inv[o].saved

PrivilegedSpellings ==
  { <<"a", "d", "m", "i", "n">>, <<"A", "d", "m", "i", "n">>,
    <<" ", "a", "d", "m", "i", "n", " ">>,
    <<"c", "l", "i", "e", "n", "t">>, <<"C", "L", "I", "E", "N", "T">>,
    <<"c", "l", "i", "e", "n", "t", " ">> }

\* C14: for an existing order the request is answered 403 exactly when the
\* caller is not the order's owner and the caller's role, lower-cased and
\* trimmed, is neither admin nor client.
C14_InvoiceAccess ==
  (access.pc \in {"findInvoice", "done"} /\ access.orderExists) =>
     ((access.status = 403) <=>
        (access.caller # access.owner /\ access.role \notin PrivilegedSpellings))

\* C14 witness: a non-owner whose role is stored as " admin " was let through.
C14_Witness ==
  /\ access.pc = "done" /\ access.orderExists /\ access.caller # access.owner
  /\ access.role = <<" ", "a", "d", "m", "i", "n", " ">>
  /\ access.status = 200

\* what C15 says of a finished request
AuthOutcome ==
  upd.pc = "done" =>
    /\ (upd.target = upd.caller /\ upd.role \notin {<<>>, RoleAdmin}) =>
          (upd.status = 403 /\ roleOf = upd.before)
    /\ (upd.target \in AuthUsers /\ upd.target # upd.caller /\ upd.role # <<>>
           /\ upd.before[upd.target] = RoleAdmin /\ upd.status = 200) =>
          roleOf[upd.target] = upd.role
    /\ (upd.target \in AuthUsers /\ upd.target # upd.caller /\ ~upd.emailTaken) =>
          upd.status \in {200, 500}
    /\ upd.status = 403 => upd.target = upd.caller

\* C15: an admin who targets their own id with a role other than admin is
\* answered 403 and nothing stored changes; an admin who gives another admin
\* a new role succeeds (unless the e-mail is taken or the save is rejected)
\* and the target then has that role; no step takes the admin role away from
\* the user who asked for it.
C15_NoSelfDemotion ==
  /\ []AuthOutcome
  /\ [][\A u \in AuthUsers :
          (roleOf[u] = RoleAdmin /\ roleOf'[u] # RoleAdmin) => upd.caller # u]_vars

\* C15 witness: an admin was refused their own demotion, after another admin
\* had been given the client role.
C15_Witness ==
  /\ upd.pc = "done" /\ upd.status = 403 /\ upd.caller = upd.target /\ upd.role = RoleClient
  /\ \E u \in AuthUsers : roleOf[u] = RoleClient

\* C16: ratings is the mean of the current reviews' ratings rounded to one
\* decimal (within 0.05 of the mean; 0 without reviews), and numberOfReviews
\* is the number of current reviews.
C16_RatingsAreMean ==
  LET n == Len(reviewed.reviews)
      sum == SumRatings(reviewed.reviews)
      diff == 10 * sum - reviewed.ratings * n
  IN /\ reviewed.numberOfReviews = n
     /\ n = 0 => reviewed.ratings = 0
     /\ n > 0 => (2 * diff <= n /\ 2 * diff >= -n)
     /\ (n = 3 /\ sum = 12) => reviewed.ratings = 40

\* C16 witness: an added review left three reviews whose mean, 4.66.., is
\* stored as 4.7.
C16_Witness ==
  /\ Len(reviewed.reviews) = 3 /\ SumRatings(reviewed.reviews) = 14 /\ reviewed.ratings = 47
  /\ rv.pc = "done" /\ rv.status = 200 /\ rv.op = "add"

\* the reviews of user u in a list of reviews
ReviewsBy(reviews, u) == SelectSeq(reviews, LAMBDA rev : rev.user = u)

\* C17: a product never holds two reviews of one user; a resubmission
\* overwrites the user's rating and comment in place, leaves the other reviews
\* and the number of reviews as they were and recomputes ratings (4,5,3 with
\* one resubmitted as 1 gives 3.0); a delete by a user without a review on the
\* product is answered 403 and changes nothing.
C17_OneReviewPerUser ==
  /\ \A u \in Reviewers : Len(ReviewsBy(reviewed.reviews, u)) <= 1
  /\ (rv.pc = "done" /\ rv.op = "add" /\ rv.status = 200
        /\ IsAlreadyReview(rv.before.reviews, rv.user)) =>
       /\ Len(reviewed.reviews) = Len(rv.before.reviews)
       /\ reviewed.numberOfReviews = rv.before.numberOfReviews
       /\ \A i \in 1..Len(reviewed.reviews) :
            IF rv.before.reviews[i].user = rv.user
            THEN reviewed.reviews[i] = Review(rv.user, rv.rating, rv.comment)
            ELSE reviewed.reviews[i] = rv.before.reviews[i]
       /\ (Len(reviewed.reviews) = 3 /\ SumRatings(reviewed.reviews) = 9) =>
            reviewed.ratings = 30
  /\ (rv.pc = "done" /\ rv.op = "delete" /\ rv.productExists
        /\ ~IsAlreadyReview(rv.before.reviews, rv.user)) =>
       (rv.status = 403 /\ reviewed = rv.before)

\* C17 witness: with ratings 4, 5 and 3 stored, one of the three users
\* resubmitted with rating 1 and the product shows 3.0 over 3 reviews.
C17_Witness ==
  /\ rv.pc = "done" /\ rv.op = "add" /\ rv.status = 200 /\ rv.rating = 1
  /\ Len(rv.before.reviews) = 3 /\ SumRatings(rv.before.reviews) = 12
  /\ rv.before.ratings = 40
  /\ reviewed.ratings = 30 /\ reviewed.numberOfReviews = 3

Has(events, e) == \E i \in 1..Len(events) : events[i] = e

Before(events, a, b) ==
  \E i \in 1..Len(events), j \in 1..Len(events) : i < j /\ events[i] = a /\ events[j] = b

EchoesStatus(response) ==
  response.sent => response.envelope /\ response.status = response.http

C20_EnvelopeEchoesStatus ==
  /\ EchoesStatus(adminRes)
  /\ \A h \in Invocations : EchoesStatus(call[h].res)

\* ------------------------------------------------------- cart claims, again
LinesOf(items, p) == Len(SelectSeq(items, LAMBDA l : l.productId = p))

\* C26: after any interleaving of concurrent cart requests of one user, the
\* user's cart holds at most one line per productId.
C26_OneLinePerProduct ==
  \A u \in Users : \A p \in ProductIds : LinesOf(cart[u], p) <= 1

\* C27: a database step of a decrease request for P leaves every other
\* product's lines of that cart as they were: same number of lines, same
\* quantity.
C27_DecreaseTouchesOnlyP ==
  [][\A r \in CReqs :
       (creq[r].pc \in {"decrement", "remove"} /\ creq'[r].pc # creq[r].pc) =>
         \A q \in ProductIds \ {creq[r].productId} :
           /\ LinesOf(cart'[creq[r].user], q) = LinesOf(cart[creq[r].user], q)
           /\ Qty(cart'[creq[r].user], q) = Qty(cart[creq[r].user], q)]_vars

\* ------------------------------------------------------ order claims, again
ErrorKinds == {"validation", "cast", "duplicate", "other"}

Taxonomy(kind) ==
  CASE kind = "validation" -> 400
    [] kind = "cast" -> 400
    [] kind = "duplicate" -> 409
    [] OTHER -> 500

InvalidItem(item) ==
  \/ item.product = None
  \/ ~product[item.product].exists
  \/ item.quantity < 1

\* C23: a request one of whose items references a product that does not exist
\* or has a quantity that is not >= 1 (0 and negative quantities included) is
\* answered 400 and creates no Order; every stored order line has a quantity
\* >= 1 that is the requested quantity.
C23_InvalidItemsRejected ==
  \A o \in OReqs :
    /\ (oreq[o].loaded /\ \E i \in 1..Len(oreq[o].items) : InvalidItem(oreq[o].items[i])) =>
         /\ ~ord[o].saved
         /\ (oreq[o].pc = "done" /\ oreq[o].fail # "other") => oreq[o].status = 400
    /\ (ord[o].saved /\ oreq[o].items # <<>>) =>
         /\ Len(ord[o].orderItems) = Len(oreq[o].items)
         /\ \A i \in 1..Len(ord[o].orderItems) :
              /\ ord[o].orderItems[i].quantity >= 1
              /\ ord[o].orderItems[i].quantity = oreq[o].items[i].quantity

\* ------------------------------------------ serverless instance claims, again
\* C30: a handler invocation that arrives after a connection attempt of the
\* instance has failed, while no connection is live or being attempted, dials
\* again: the failed attempt has not marked the database as initialised.
C30_RetriesAfterFailure ==
  [][\A h \in Invocations :
       ( /\ call[h].pc = "idle" /\ call'[h].pc # "idle"
         /\ \E c \in Callers : call[c].outcome = "failed"
         /\ readyState = "disconnected"
         /\ connectionString ) =>
         (~dbInitialized /\ dials' = dials + 1)]_vars

C28_StoredIdNotDestroyed ==
  /\ (upd.pc = "done" /\ upd.file /\ upd.destroyed # NoImage)
       => imageOf[upd.target] # upd.destroyed
  /\ (mreq.pc = "done" /\ mreq.svc = "updateCategoryService" /\ mreq.file
        /\ mreq.destroyed # NoImage)
       => imageOf[EntityOf(mreq.svc)] # mreq.destroyed

\* C24: clearAllOrdersService deletes every order of the authenticated user
\* and no order of another user, whatever order placements and admin user
\* updates (e-mail changes included) came before.
C24_ClearsOwnOrdersOnly ==
  (del.pc = "done" /\ del.op = "clearAllOrdersService") =>
    \A o \in OReqs :
      del.before[o].saved => (ord[o].saved <=> del.before[o].user # del.user)

RECURSIVE SumQuantity(_)
SumQuantity(lines) ==
  IF lines = <<>> THEN 0 ELSE Head(lines).quantity + SumQuantity(Tail(lines))

\* C25: getTopProductsService reports, per product, revenue = the sum of
\* quantity x the unit price stored on the order line, quantitySold = the sum
\* of the quantities and orderCount = the number of lines, sorted by revenue
\* descending and capped at the limit.
C25_TopProducts ==
  report # <<>> =>
    LET rows == report[1].rows
    IN /\ Len(rows) <= report[1].limit
       /\ \A i, j \in DOMAIN rows : i < j => rows[i].revenue >= rows[j].revenue
       /\ \A i \in DOMAIN rows :
            LET mine == SelectSeq(report[1].lines, LAMBDA l : l.product = rows[i].productId)
            IN /\ rows[i].revenue = SumLines(mine)
               /\ rows[i].quantitySold = SumQuantity(mine)
               /\ rows[i].orderCount = Len(mine)

\* C29: after any sequence of order placements and deletions every Invoice
\* references an Order that still exists.
C29_InvoiceHasOrder ==
  \A i \in DOMAIN inv : inv[i].saved => ord[inv[i].order].saved

============================================================================
